---- MODULE Spec2Model ----
(***************************************************************************)
(* Audit / access-control core of the Curelia Health backend.              *)
(*                                                                         *)
(* The state is the relational store (users, patients, patient contacts,   *)
(* audit_logs), the clock, and a record of the last HTTP exchange.  Each   *)
(* request runs the whole stack of main.py: AuditMiddleware.dispatch       *)
(* around the endpoint.  An endpoint works on a database session: rows it  *)
(* changes and audit rows it adds stay in the session until db.commit();   *)
(* closing the session (get_db's finally) drops whatever was not           *)
(* committed.                                                              *)
(*                                                                         *)
(* The routers under api/v1 use names that the files of the repository do  *)
(* not define (validate_patient_access, soft_delete, UserRole.DOCTOR,      *)
(* UserRole.NURSE, AuditAction.READ, settings.MAX_FAILED_LOGIN_ATTEMPTS,   *)
(* decode_token, verify_password_reset_token).  Those are modelled from    *)
(* the specification's sections 4.1-4.3 and are marked where they occur;   *)
(* the handlers that use them are translated line by line.  Every name is   *)
(* resolved to what its import statement names: dependencies.py:34 calls   *)
(* core.security.get_current_user, db.func.now() is the current time.      *)
(***************************************************************************)
EXTENDS Integers, Sequences, FiniteSets, TLC

VARIABLES users, patients, contacts, ledger, now, nreq, budget, streak, last, inflight,
          activity, audit_fault

vars == <<users, patients, contacts, ledger, now, nreq, budget, streak, last, inflight,
          activity, audit_fault>>

Null == "null"
\* A timestamp column that holds NULL.
NoTime == -1
\* The metadata column of an audit row that holds no status_code.
NoStatus == 0

\* ------------------------------------------------------------------ bounds
\* Number of steps (requests and clock ticks) a behaviour may take.
MaxSteps == 2
\* Requests a behaviour of the authentication specification may take: enough for
\* the lock threshold to be reached and passed.
MaxAttempts == 6
\* Login requests in flight at once in the concurrent specification.
MaxConcurrent == 3
\* Requests a behaviour of the audit-store specification may take.
MaxAudited == 2
\* Steps a behaviour of the password-age specification may take.
MaxAged == 3
\* Clock units per day (the clock is finer than the day password ages are counted in).
UnitsPerDay == 2

\* ------------------------------------------------------- program constants
\* security.py:60  "if user.failed_login_attempts >= 5"
LOCK_AFTER == 5
\* settings.MAX_FAILED_LOGIN_ATTEMPTS of api/v1/auth/router.py:52 (default of spec 4.1)
MAX_FAILED_LOGIN_ATTEMPTS == 5
\* config.py:77
HIPAA_SESSION_TIMEOUT_MINUTES == 30
\* config.py:79
HIPAA_PASSWORD_EXPIRY_DAYS == 90

\* ---------------------------------------------------------------- domains
\* models/user.py UserRole
ADMIN == "admin"
STAFF == "staff"
CAREGIVER == "caregiver"
CLIENT == "client"
FAMILY == "family"
UserRole == {ADMIN, STAFF, CAREGIVER, CLIENT, FAMILY}
\* Roles api/v1/patients/router.py:45 names; no account of models/user.py holds them.
DOCTOR == "doctor"
NURSE == "nurse"

\* Accounts are identified by their e-mail address; the id of a user is its key here.
Emails == {"jane", "bob"}
Passwords == {"pw1", "pw2"}
WrongPassword == "bad"

PatientIds == {"p1", "p2", "p3"}
ContactIds == {"c1", "c2"}

\* The transport's request context: the model has one client.
ClientHost == "10.0.0.1"
UserAgent == "agent"

\* models/audit.py AuditAction (READ is used by the patients router only)
AuditAction == {"login", "logout", "login_failed", "password_changed", "password_reset",
                "access", "access_denied", "export", "print", "create", "update",
                "delete", "restore", "clock_in", "clock_out", "evv_override",
                "configuration", "system", "read"}

\* models/audit.py AuditLog: the columns of one row.
AuditLog(user_id, action, resource_type, resource_id, ip_address, user_agent, request_id) ==
    [user_id |-> user_id, action |-> action, resource_type |-> resource_type,
     resource_id |-> resource_id, ip_address |-> ip_address, user_agent |-> user_agent,
     request_id |-> request_id, status_code |-> NoStatus]

\* ------------------------------------------------------------ the session
\* A database session: its view of the rows (u, p, c), the user rows as it loaded
\* them (lu), the audit rows added and not yet committed (pend), and the
\* committed store (cu, cp, cc, led).  ev lists the commits of the session in
\* program order: whether the commit wrote row changes, and the action kinds
\* of the audit rows it made durable.
Begin ==
    [u |-> users, lu |-> users, p |-> patients, c |-> contacts, pend |-> <<>>,
     cu |-> users, cp |-> patients, cc |-> contacts, led |-> ledger, ev |-> <<>>]

\* A session that loaded its rows earlier, meeting the store as it is now.
Resume(tx) ==
    [tx EXCEPT !.cu = users, !.cp = patients, !.cc = contacts, !.led = ledger]

\* session.add(audit_log)
DbAdd(tx, entry) == [tx EXCEPT !.pend = Append(@, entry)]

\* The committed audit_logs table after a commit that inserts the rows `rows`.
InsertRowsOverwrite(table, rows) == rows
InsertRows(table, rows) == table \o rows

\* The UPDATE a flush issues for a user row: it sets the columns the session
\* changed since it loaded the row, to the values the session holds.
FlushUsers(tx) ==
    [e \in DOMAIN tx.u |->
        [col \in DOMAIN tx.u[e] |->
            IF tx.u[e][col] # tx.lu[e][col] THEN tx.u[e][col] ELSE tx.cu[e][col]]]

\* db.commit(): the session's changes and its added audit rows become durable.
DbCommit(tx) ==
    LET cu == FlushUsers(tx) IN
    [tx EXCEPT !.cu = cu, !.u = cu, !.lu = cu, !.cp = tx.p, !.cc = tx.c,
               !.led = InsertRows(tx.led, tx.pend), !.pend = <<>>,
               !.ev = Append(@, [mut |-> cu # tx.cu \/ tx.p # tx.cp \/ tx.c # tx.cc,
                                 kinds |-> {tx.pend[i].action : i \in DOMAIN tx.pend}])]

\* AuditLog.log: builds the row and adds it to the session; it does not commit.
AuditLogLog(tx, entry) == DbAdd(tx, entry)

\* ------------------------------------------------------------- passwords
\* verify_password(plain, hashed): the hash of a password is modelled by the password.
verify_password(plain, hashed) == plain = hashed

\* timedelta.days of (later - earlier), both in clock units.
DaysBetween(earlier, later) == (later - earlier) \div UnitsPerDay

\* security.py:60 / router.py:52: the counter has reached the lock threshold.
ThresholdReachedOffByOne(n, threshold) == n > threshold
ThresholdReached(n, threshold) == n >= threshold

\* security.py:59 / router.py:47: user.failed_login_attempts += 1
CountMismatchTwice(n) == n + 2
CountMismatch(n) == n + 1

\* security.py:88 / router.py:99: user.failed_login_attempts = 0
ResetCounterKept(user) == user
ResetCounter(user) == [user EXCEPT !.failed_login_attempts = 0]

\* security.py:82-85: the stored change time is set and older than the maximum
\* password age, counted in whole days.
PasswordExpiredNever(user) == FALSE

PasswordExpired(user) ==
    /\ user.password_changed_at # NoTime
    /\ HIPAA_PASSWORD_EXPIRY_DAYS # 0
    /\ DaysBetween(user.password_changed_at, now) > HIPAA_PASSWORD_EXPIRY_DAYS

\* authenticate_user with the expiry check moved ahead of the password check.
authenticate_user_expiry_first(tx, email, password) ==
    LET user == tx.u[email] IN
    IF ~user.registered THEN [tx |-> tx, user |-> Null]
    ELSE IF PasswordExpired(user) THEN [tx |-> tx, user |-> Null]
    ELSE IF ~verify_password(password, user.hashed_password) THEN
        LET n == CountMismatch(user.failed_login_attempts)
            u1 == [user EXCEPT !.failed_login_attempts = n,
                               !.is_locked = IF ThresholdReached(n, LOCK_AFTER)
                                             THEN TRUE ELSE @]
            t1 == DbCommit([tx EXCEPT !.u[email] = u1])
            t2 == AuditLogLog(t1, AuditLog(email, "login_failed", "User", email,
                                           Null, Null, Null))
        IN [tx |-> t2, user |-> Null]
    ELSE IF ~user.is_active \/ user.is_locked THEN [tx |-> tx, user |-> Null]
    ELSE
        LET u1 == [ResetCounter(user) EXCEPT !.last_login_at = now]
        IN [tx |-> DbCommit([tx EXCEPT !.u[email] = u1]), user |-> email]

\* security.py:48-92 authenticate_user: [tx, user], user = Null for "return None".
authenticate_user(tx, email, password) ==
    LET user == tx.u[email] IN
    IF ~user.registered THEN [tx |-> tx, user |-> Null]
    ELSE IF ~verify_password(password, user.hashed_password) THEN
        LET n == CountMismatch(user.failed_login_attempts)
            u1 == [user EXCEPT !.failed_login_attempts = n,
                               !.is_locked = IF ThresholdReached(n, LOCK_AFTER)
                                             THEN TRUE ELSE @]
            t1 == DbCommit([tx EXCEPT !.u[email] = u1])
            t2 == AuditLogLog(t1, AuditLog(email, "login_failed", "User", email,
                                           Null, Null, Null))
        IN [tx |-> t2, user |-> Null]
    ELSE IF ~user.is_active \/ user.is_locked THEN [tx |-> tx, user |-> Null]
    ELSE IF PasswordExpired(user) THEN [tx |-> tx, user |-> Null]
    ELSE
        LET u1 == [ResetCounter(user) EXCEPT !.last_login_at = now]
        IN [tx |-> DbCommit([tx EXCEPT !.u[email] = u1]), user |-> email]

\* ------------------------------------------------------------- responses
\* What an endpoint hands back: the session at its end, the HTTP status, the
\* detail/message, and the rows of a list result.
Reply(tx, status, detail, rows) ==
    [tx |-> tx, status |-> status, detail |-> detail, rows |-> rows]

\* HTTPException raised before the endpoint touched its session.
Refuse(status, detail) == Reply(Begin, status, detail, {})

\* ----------------------------------------------------------------- tokens
\* A bearer or refresh token as jwt.decode sees it: the subject, whether the
\* signature verifies, whether "exp" has passed, and the "type" claim.
Token(sub, signed, expired, type) ==
    [sub |-> sub, signed |-> signed, expired |-> expired, type |-> type]

\* The access token create_access_token issues for a user (security.py:32-45).
AccessToken(sub) == Token(sub, TRUE, FALSE, "access")

RefreshTokenOf(sub) == Token(sub, TRUE, FALSE, "refresh")

\* The tokens requests present: the ones issued, a forged one and an expired one.
BearerTokens ==
    {AccessToken(sub) : sub \in Emails}
        \cup {Token("jane", FALSE, FALSE, "access"), Token("jane", TRUE, TRUE, "access")}

RefreshTokens ==
    {RefreshTokenOf(sub) : sub \in Emails}
        \cup {AccessToken("jane"), Token("jane", FALSE, FALSE, "refresh"),
              Token("jane", TRUE, TRUE, "refresh")}

\* security.py:115 "if not user or not user.is_active"
UsableAccountAlsoUnlocked(user) == user.registered /\ user.is_active /\ ~user.is_locked
UsableAccount(user) == user.registered /\ user.is_active

\* security.py:95-118 get_current_user: the user's key, or Null for "return None".
get_current_user(tx, token) ==
    IF ~token.signed \/ token.expired THEN Null
    ELSE IF ~UsableAccount(tx.u[token.sub]) THEN Null
    ELSE token.sub

\* schemas/dependencies.py:26-47 get_current_user and :50-61 get_current_active_user:
\* the status they raise, 200 when the user passes.
CurrentActiveUserStatus(tx, token) ==
    LET user == get_current_user(tx, token) IN
    IF user = Null THEN 401
    ELSE IF ~tx.u[user].is_active THEN 403
    ELSE 200

\* schemas/dependencies.py:64-117: the roles each guard lets through.
GuardRoles(guard) ==
    CASE guard = "admin" -> {ADMIN}
      [] guard = "staff" -> {ADMIN, STAFF}
      [] guard = "caregiver" -> {CAREGIVER}
      [] guard = "client" -> {CLIENT}
      [] OTHER -> UserRole

Guards == {"admin", "staff", "caregiver", "client", "active"}

\* A request to an endpoint behind one of the guards of dependencies.py.  The
\* guard raises before the endpoint runs; the endpoints themselves (users,
\* caregivers, clients, ...) are not part of the model and answer 200.
guarded_endpoint(token, guard) ==
    LET st == CurrentActiveUserStatus(Begin, token) IN
    IF st # 200 THEN Refuse(st, "Could not validate credentials")
    ELSE IF users[token.sub].role \notin GuardRoles(guard)
         THEN Refuse(403, "Not enough permissions")
    ELSE Reply(Begin, 200, "ok", {})

\* ------------------------------------------------- api_v1/endpoints/auth.py
\* endpoints/auth.py:21-70 login
login(email, password) ==
    LET r == authenticate_user(Begin, email, password) IN
    IF r.user = Null THEN
        Reply(AuditLogLog(r.tx, AuditLog(Null, "login_failed", Null, Null,
                                         ClientHost, UserAgent, Null)),
              401, "Incorrect email or password", {})
    ELSE
        Reply(AuditLogLog(r.tx, AuditLog(r.user, "login", Null, Null,
                                         ClientHost, UserAgent, Null)),
              200, "token", {})

\* The row models.User(...) of endpoints/auth.py:91-99 with the column defaults
\* of models/user.py.
NewUserAsClient(password, role) ==
    [registered |-> TRUE, role |-> CLIENT, is_active |-> TRUE, is_verified |-> FALSE,
     is_locked |-> FALSE, failed_login_attempts |-> 0, hashed_password |-> password,
     password_changed_at |-> NoTime, last_login_at |-> NoTime]

NewUser(password, role) ==
    [registered |-> TRUE, role |-> role, is_active |-> TRUE, is_verified |-> FALSE,
     is_locked |-> FALSE, failed_login_attempts |-> 0, hashed_password |-> password,
     password_changed_at |-> NoTime, last_login_at |-> NoTime]

\* endpoints/auth.py:73-117 register
register(email, password, role) ==
    IF users[email].registered
    THEN Refuse(400, "A user with this email already exists")
    ELSE
        LET t1 == DbCommit([Begin EXCEPT !.u[email] = NewUser(password, role)])
            t2 == AuditLogLog(t1, AuditLog(email, "create", "User", email,
                                           ClientHost, UserAgent, Null))
        IN Reply(t2, 201, "user", {})

\* reset_password answering 404 for an e-mail that is not on file.
reset_password_revealing(email) ==
    IF ~users[email].registered
    THEN Refuse(404, "User not found")
    ELSE Reply(AuditLogLog(Begin, AuditLog(email, "password_reset", "User", email,
                                           ClientHost, UserAgent, Null)),
               202, "If your email is registered, you will receive a password reset link",
               {})

\* endpoints/auth.py:120-149 reset_password
reset_password(email) ==
    IF ~users[email].registered
    THEN Reply(Begin, 202,
               "If your email is registered, you will receive a password reset link", {})
    ELSE Reply(AuditLogLog(Begin, AuditLog(email, "password_reset", "User", email,
                                           ClientHost, UserAgent, Null)),
               202, "If your email is registered, you will receive a password reset link",
               {})

\* change_password comparing the current password itself, without
\* authenticate_user.
change_password_verify_only(token, current_password, new_password) ==
    LET st == CurrentActiveUserStatus(Begin, token) IN
    IF st # 200 THEN Refuse(401, "Could not validate credentials")
    ELSE
        LET me == token.sub IN
        IF ~verify_password(current_password, users[me].hashed_password)
        THEN Reply(Begin, 400, "Current password is incorrect", {})
        ELSE
            LET t1 == DbCommit([Begin EXCEPT !.u[me].hashed_password = new_password,
                                             !.u[me].password_changed_at = now])
                t2 == AuditLogLog(t1, AuditLog(me, "password_changed", "User", me,
                                               ClientHost, UserAgent, Null))
            IN Reply(t2, 200, "Password changed successfully", {})

\* endpoints/auth.py:152-187 change_password
change_password(token, current_password, new_password) ==
    LET st == CurrentActiveUserStatus(Begin, token) IN
    IF st # 200 THEN Refuse(401, "Could not validate credentials")
    ELSE
        LET me == token.sub
            r == authenticate_user(Begin, me, current_password)
        IN
        IF r.user = Null THEN Reply(r.tx, 400, "Current password is incorrect", {})
        ELSE
            LET t1 == DbCommit([r.tx EXCEPT !.u[me].hashed_password = new_password,
                                            !.u[me].password_changed_at = now])
                t2 == AuditLogLog(t1, AuditLog(me, "password_changed", "User", me,
                                               ClientHost, UserAgent, Null))
            IN Reply(t2, 200, "Password changed successfully", {})

\* ------------------------------------------------------ api/v1/auth/router.py
\* router.py:32-116 login_access_token, on the session tx (which has loaded the
\* user row at router.py:41-42).
login_access_token(tx, email, password) ==
    LET user == tx.u[email] IN
    IF ~user.registered THEN Reply(tx, 401, "Incorrect email or password", {})
    ELSE IF ~verify_password(password, user.hashed_password) THEN
        LET n == CountMismatch(user.failed_login_attempts)
            u1 == [user EXCEPT !.failed_login_attempts = n,
                               !.is_locked = IF ThresholdReached(n, MAX_FAILED_LOGIN_ATTEMPTS)
                                             THEN TRUE ELSE @]
            t1 == DbAdd([tx EXCEPT !.u[email] = u1],
                        AuditLog(email, "access_denied", "Authentication", Null,
                                 Null, Null, Null))
        IN Reply(DbCommit(t1), 401, "Incorrect email or password", {})
    ELSE IF ~user.is_active THEN Reply(tx, 401, "Inactive user account", {})
    ELSE IF user.is_locked
         THEN Reply(tx, 401, "Account locked due to too many failed login attempts", {})
    ELSE
        LET u1 == [ResetCounter(user) EXCEPT !.last_login_at = now]
            t1 == DbAdd([tx EXCEPT !.u[email] = u1],
                        AuditLog(email, "login", "Authentication", Null,
                                 Null, Null, Null))
        IN Reply(DbCommit(t1), 200, "token", {})

\* decode_token of router.py:129 (not defined in the repository; spec 4.1:
\* InvalidToken when the signature does not validate, Expired when the expiry
\* has passed): TRUE when the token decodes.
decode_token_ok(token) == token.signed /\ ~token.expired

\* router.py:119-189 refresh_token
refresh_token(token) ==
    IF ~decode_token_ok(token) THEN Refuse(401, "Could not validate credentials")
    ELSE IF token.type # "refresh" THEN Refuse(401, "Invalid token type")
    ELSE IF ~UsableAccount(users[token.sub]) THEN Refuse(401, "User not found or inactive")
    ELSE Reply(DbCommit(DbAdd(Begin, AuditLog(token.sub, "login", "Authentication", Null,
                                              Null, Null, Null))),
               200, "token", {})

\* router.py:192-225 request_password_reset
request_password_reset(email) ==
    IF ~users[email].registered
    THEN Reply(Begin, 200, "If this email exists, a password reset link has been sent", {})
    ELSE Reply(DbCommit(DbAdd(Begin, AuditLog(email, "update", "Authentication", Null,
                                              Null, Null, Null))),
               200, "If this email exists, a password reset link has been sent", {})

\* A password-reset token: the e-mail it was issued for and whether
\* verify_password_reset_token accepts it (router.py:237; not defined in the
\* repository: it yields the e-mail of a valid token and None otherwise).
ResetTokens == {[email |-> e, valid |-> TRUE] : e \in Emails}
                   \cup {[email |-> "jane", valid |-> FALSE]}

\* confirm_password_reset clearing the lock but leaving the counter.
confirm_password_reset_keeping_counter(rtoken, new_password) ==
    IF ~rtoken.valid THEN Refuse(400, "Invalid or expired token")
    ELSE IF ~users[rtoken.email].registered THEN Refuse(404, "User not found")
    ELSE
        LET e == rtoken.email
            t1 == [Begin EXCEPT !.u[e].hashed_password = new_password,
                                !.u[e].password_changed_at = now,
                                !.u[e].is_locked = FALSE]
            t2 == DbAdd(t1, AuditLog(e, "update", "Authentication", Null, Null, Null, Null))
        IN Reply(DbCommit(t2), 200, "Password has been reset successfully", {})

\* router.py:228-272 confirm_password_reset
confirm_password_reset(rtoken, new_password) ==
    IF ~rtoken.valid THEN Refuse(400, "Invalid or expired token")
    ELSE IF ~users[rtoken.email].registered THEN Refuse(404, "User not found")
    ELSE
        LET e == rtoken.email
            t1 == [Begin EXCEPT !.u[e].hashed_password = new_password,
                                !.u[e].password_changed_at = now,
                                !.u[e].failed_login_attempts = 0,
                                !.u[e].is_locked = FALSE]
            t2 == DbAdd(t1, AuditLog(e, "update", "Authentication", Null, Null, Null, Null))
        IN Reply(DbCommit(t2), 200, "Password has been reset successfully", {})

\* -------------------------------------------------- api/v1/patients/router.py
\* models/base.py:95-109 _add_soft_delete_filter: a select sees a row unless it is
\* soft-deleted (or include_deleted is asked for).
VisibleIncludingDeleted(row, include_deleted) == row.exists
Visible(row, include_deleted) == row.exists /\ (include_deleted \/ ~row.is_deleted)

\* The capability table of spec 4.2 for Patient and its sub-entities, as
\* validate_patient_access (imported at router.py:26, not defined in the
\* repository) applies it: action is "create", "read", "update" or "delete".
Authorize(tx, actor, action, pid) ==
    LET role == tx.u[actor].role IN
    CASE role = ADMIN -> TRUE
      [] role = STAFF -> action \in {"create", "read", "update"}
      [] role = CAREGIVER -> action = "read" /\ actor \in tx.p[pid].assigned
      [] role \in {CLIENT, FAMILY} -> action = "read" /\ tx.p[pid].user_id = actor
      [] OTHER -> FALSE

\* validate_patient_access (router.py:160 "Validates access and logs it"; spec 4.2:
\* a denial records AccessDenied with the actor and the resource before the
\* error is returned): the session after it, and the status it raises, 200 when
\* the handler may run.
validate_patient_access(token, action, pid) ==
    LET actor == get_current_user(Begin, token) IN
    IF actor = Null THEN [tx |-> Begin, status |-> 401, actor |-> Null]
    ELSE IF ~Authorize(Begin, actor, action, pid) THEN
        [tx |-> DbCommit(DbAdd(Begin, AuditLog(actor, "access_denied", "Patient", pid,
                                               ClientHost, UserAgent, Null))),
         status |-> 403, actor |-> actor]
    ELSE
        [tx |-> DbCommit(DbAdd(Begin, AuditLog(actor, "access", "Patient", pid,
                                               ClientHost, UserAgent, Null))),
         status |-> 200, actor |-> actor]

\* A handler behind validate_patient_access: the dependency's refusal, or body(tx, actor).
Refused(v) ==
    Reply(v.tx, v.status,
          IF v.status = 401 THEN "Could not validate credentials" ELSE "Forbidden", {})

\* router.py:45 "current_user.role not in [UserRole.ADMIN, UserRole.DOCTOR, UserRole.NURSE]"
MayCreatePatientStaffToo(role) == role \in {ADMIN, STAFF, DOCTOR, NURSE}
MayCreatePatient(role) == role \in {ADMIN, DOCTOR, NURSE}

\* router.py:253 "current_user.role != UserRole.ADMIN"
MayDeletePatientStaffToo(role) == role \in {ADMIN, STAFF}
MayDeletePatient(role) == role = ADMIN

\* The primary key uuid.uuid4 gives a new row: a key no row of the table holds.
FreeIds(table, ids) == {i \in ids : ~table[i].exists}
NewId(table, ids) == CHOOSE i \in FreeIds(table, ids) : TRUE

\* create_patient with the audit row committed before the patient row.
create_patient_audit_first(token, pid, data) ==
    LET actor == get_current_user(Begin, token) IN
    IF actor = Null THEN Refuse(401, "Could not validate credentials")
    ELSE IF ~MayCreatePatient(users[actor].role) THEN
        Reply(DbCommit(DbAdd(Begin, AuditLog(actor, "access_denied", "Patient", Null,
                                             ClientHost, UserAgent, Null))),
              403, "Not authorized to create patients", {})
    ELSE
        LET row == [exists |-> TRUE, is_deleted |-> FALSE, user_id |-> Null,
                    assigned |-> {}, data |-> data,
                    created_by_id |-> actor, updated_by_id |-> actor]
            t1 == DbCommit(DbAdd(Begin, AuditLog(actor, "create", "Patient", pid,
                                                 ClientHost, UserAgent, Null)))
            t2 == DbCommit([t1 EXCEPT !.p[pid] = row])
        IN Reply(t2, 201, "patient", {pid})

\* router.py:32-87 create_patient; pid is the new row's key.
create_patient(token, pid, data) ==
    LET actor == get_current_user(Begin, token) IN
    IF actor = Null THEN Refuse(401, "Could not validate credentials")
    ELSE IF ~MayCreatePatient(users[actor].role) THEN
        Reply(DbCommit(DbAdd(Begin, AuditLog(actor, "access_denied", "Patient", Null,
                                             ClientHost, UserAgent, Null))),
              403, "Not authorized to create patients", {})
    ELSE
        LET row == [exists |-> TRUE, is_deleted |-> FALSE, user_id |-> Null,
                    assigned |-> {}, data |-> data,
                    created_by_id |-> actor, updated_by_id |-> actor]
            t1 == DbCommit([Begin EXCEPT !.p[pid] = row])
            t2 == DbCommit(DbAdd(t1, AuditLog(actor, "create", "Patient", pid,
                                              ClientHost, UserAgent, Null)))
        IN Reply(t2, 201, "patient", {pid})

\* router.py:90-151 list_patients (no search, status or risk filter; the page holds
\* every row).
list_patients(token) ==
    LET actor == get_current_user(Begin, token) IN
    IF actor = Null THEN Refuse(401, "Could not validate credentials")
    ELSE
        Reply(DbCommit(DbAdd(Begin, AuditLog(actor, "read", "Patient", Null,
                                             ClientHost, UserAgent, Null))),
              200, "patients", {p \in PatientIds : Visible(patients[p], FALSE)})

\* router.py:154-177 get_patient
get_patient(token, pid) ==
    LET v == validate_patient_access(token, "read", pid) IN
    IF v.status # 200 THEN Refused(v)
    ELSE IF ~Visible(v.tx.p[pid], FALSE) THEN Reply(v.tx, 404, "Patient not found", {})
    ELSE Reply(v.tx, 200, "patient", {pid})

\* router.py:180-237 update_patient
update_patient(token, pid, data) ==
    LET v == validate_patient_access(token, "update", pid) IN
    IF v.status # 200 THEN Refused(v)
    ELSE IF ~Visible(v.tx.p[pid], FALSE) THEN Reply(v.tx, 404, "Patient not found", {})
    ELSE
        LET t1 == DbCommit([v.tx EXCEPT !.p[pid].data = data,
                                        !.p[pid].updated_by_id = v.actor])
            t2 == DbCommit(DbAdd(t1, AuditLog(v.actor, "update", "Patient", pid,
                                              ClientHost, UserAgent, Null)))
        IN Reply(t2, 200, "patient", {pid})

\* soft_delete(user_id) of router.py:283 and :527 (not defined in the repository;
\* spec 4.3: sets the flag true and updated-by to the actor, the row stays).
soft_delete(row, actor) == [row EXCEPT !.is_deleted = TRUE, !.updated_by_id = actor]

\* router.py:287-297 / :531-541: the audit row a delete handler adds.
DeleteEntryAsUpdate(actor, resource_type, resource_id) ==
    AuditLog(actor, "update", resource_type, resource_id, ClientHost, UserAgent, Null)
DeleteEntry(actor, resource_type, resource_id) ==
    AuditLog(actor, "delete", resource_type, resource_id, ClientHost, UserAgent, Null)

\* delete_patient with the row looked up before the role is checked.
delete_patient_lookup_first(token, pid) ==
    LET actor == get_current_user(Begin, token) IN
    IF actor = Null THEN Refuse(401, "Could not validate credentials")
    ELSE IF ~Visible(patients[pid], FALSE) THEN Refuse(404, "Patient not found")
    ELSE IF ~MayDeletePatient(users[actor].role) THEN
        Reply(DbCommit(DbAdd(Begin, AuditLog(actor, "access_denied", "Patient", pid,
                                             ClientHost, UserAgent, Null))),
              403, "Only administrators can delete patient records", {})
    ELSE
        LET t1 == DbCommit([Begin EXCEPT !.p[pid] = soft_delete(@, actor)])
            t2 == DbCommit(DbAdd(t1, DeleteEntry(actor, "Patient", pid)))
        IN Reply(t2, 204, "", {})

\* router.py:240-299 delete_patient
delete_patient(token, pid) ==
    LET actor == get_current_user(Begin, token) IN
    IF actor = Null THEN Refuse(401, "Could not validate credentials")
    ELSE IF ~MayDeletePatient(users[actor].role) THEN
        Reply(DbCommit(DbAdd(Begin, AuditLog(actor, "access_denied", "Patient", pid,
                                             ClientHost, UserAgent, Null))),
              403, "Only administrators can delete patient records", {})
    ELSE IF ~Visible(patients[pid], FALSE) THEN Refuse(404, "Patient not found")
    ELSE
        LET t1 == DbCommit([Begin EXCEPT !.p[pid] = soft_delete(@, actor)])
            t2 == DbCommit(DbAdd(t1, DeleteEntry(actor, "Patient", pid)))
        IN Reply(t2, 204, "", {})

\* router.py:304-352 create_patient_contact; cid is the new row's key.
create_patient_contact(token, pid, cid, data) ==
    LET v == validate_patient_access(token, "create", pid) IN
    IF v.status # 200 THEN Refused(v)
    ELSE IF ~Visible(v.tx.p[pid], FALSE) THEN Reply(v.tx, 404, "Patient not found", {})
    ELSE
        LET row == [exists |-> TRUE, is_deleted |-> FALSE, patient_id |-> pid,
                    data |-> data, created_by_id |-> v.actor, updated_by_id |-> v.actor]
            t1 == DbCommit([v.tx EXCEPT !.c[cid] = row])
            t2 == DbCommit(DbAdd(t1, AuditLog(v.actor, "create", "PatientContact", cid,
                                              ClientHost, UserAgent, Null)))
        IN Reply(t2, 201, "contact", {cid})

\* router.py:355-389 list_patient_contacts
list_patient_contacts(token, pid) ==
    LET v == validate_patient_access(token, "read", pid) IN
    IF v.status # 200 THEN Refused(v)
    ELSE
        Reply(DbCommit(DbAdd(v.tx, AuditLog(v.actor, "read", "PatientContact", pid,
                                            ClientHost, UserAgent, Null))),
              200, "contacts",
              {c \in ContactIds : Visible(contacts[c], FALSE) /\ contacts[c].patient_id = pid})

\* The contact a handler's select finds: the row with this id under this patient.
ContactFound(tx, pid, cid) == Visible(tx.c[cid], FALSE) /\ tx.c[cid].patient_id = pid

\* router.py:392-432 get_patient_contact
get_patient_contact(token, pid, cid) ==
    LET v == validate_patient_access(token, "read", pid) IN
    IF v.status # 200 THEN Refused(v)
    ELSE IF ~ContactFound(v.tx, pid, cid) THEN Reply(v.tx, 404, "Contact not found", {})
    ELSE
        Reply(DbCommit(DbAdd(v.tx, AuditLog(v.actor, "read", "PatientContact", cid,
                                            ClientHost, UserAgent, Null))),
              200, "contact", {cid})

\* router.py:435-496 update_patient_contact
update_patient_contact(token, pid, cid, data) ==
    LET v == validate_patient_access(token, "update", pid) IN
    IF v.status # 200 THEN Refused(v)
    ELSE IF ~ContactFound(v.tx, pid, cid) THEN Reply(v.tx, 404, "Contact not found", {})
    ELSE
        LET t1 == DbCommit([v.tx EXCEPT !.c[cid].data = data,
                                        !.c[cid].updated_by_id = v.actor])
            t2 == DbCommit(DbAdd(t1, AuditLog(v.actor, "update", "PatientContact", cid,
                                              ClientHost, UserAgent, Null)))
        IN Reply(t2, 200, "contact", {cid})

\* router.py:499-543 delete_patient_contact
delete_patient_contact(token, pid, cid) ==
    LET v == validate_patient_access(token, "delete", pid) IN
    IF v.status # 200 THEN Refused(v)
    ELSE IF ~ContactFound(v.tx, pid, cid) THEN Reply(v.tx, 404, "Contact not found", {})
    ELSE
        LET t1 == DbCommit([v.tx EXCEPT !.c[cid] = soft_delete(@, v.actor)])
            t2 == DbCommit(DbAdd(t1, DeleteEntry(v.actor, "PatientContact", cid)))
        IN Reply(t2, 204, "", {})

\* ------------------------------------------------------------ middleware
\* audit_middleware.py:74-84: the action recorded for an HTTP method.
MethodAction(method) ==
    IF method = "GET" THEN "access"
    ELSE IF method = "POST" THEN "create"
    ELSE IF method \in {"PUT", "PATCH"} THEN "update"
    ELSE IF method = "DELETE" THEN "delete"
    ELSE "access"

\* audit_middleware.py:38 request_id = str(uuid.uuid4()): a fresh id per request.
RequestId(n) == ToString(n)

\* The URL path of each operation (main.py:55 prefix /api/v1, the routers'
\* prefixes and the route decorators).
Path(op) ==
    CASE op \in {"login", "login_access_token"} -> "/api/v1/auth/login"
      [] op = "register" -> "/api/v1/auth/register"
      [] op = "reset_password" -> "/api/v1/auth/reset-password"
      [] op = "change_password" -> "/api/v1/auth/change-password"
      [] op = "refresh_token" -> "/api/v1/auth/refresh"
      [] op = "request_password_reset" -> "/api/v1/auth/password-reset"
      [] op = "confirm_password_reset" -> "/api/v1/auth/password-reset-confirm"
      [] op = "health" -> "/health"
      [] op \in {"create_patient", "list_patients", "get_patient", "update_patient",
                 "delete_patient", "create_patient_contact", "list_patient_contacts",
                 "get_patient_contact", "update_patient_contact",
                 "delete_patient_contact"} -> "/api/v1/patients"
      [] OTHER -> "/api/v1/users"

\* hipaa_middleware.py:59-71 _is_public_endpoint (no path of the model extends
\* another, so startswith is membership).
is_public_endpoint(path) ==
    path \in {"/health", "/api/docs", "/api/redoc", "/api/openapi.json",
              "/api/v1/auth/login", "/api/v1/auth/register", "/api/v1/auth/reset-password"}

\* request.state.user_id as the middlewares read it (hipaa_middleware.py:44, :76,
\* audit_middleware.py:55).  No code of the repository assigns it, and both
\* middlewares run outside the route and its authentication dependencies:
\* the attribute is absent whatever credentials the request carries.
RequestStateUserId(account) == Null

\* hipaa_middleware.py:87-91: inactivity_time > timeout_seconds, for an
\* inactivity given in clock units.
IdleTooLong(inactivity) ==
    inactivity * 24 * 60 > HIPAA_SESSION_TIMEOUT_MINUTES * UnitsPerDay

\* hipaa_middleware.py:73-91 _is_session_expired.  A session without a recorded
\* last_activity reads as 0, the epoch of time.time(), decades before any request.
is_session_expired(user_id) ==
    IF user_id = Null THEN FALSE
    ELSE activity[user_id] = NoTime \/ IdleTooLong(now - activity[user_id])

\* The conditions the audit store can be in when the middleware writes its row:
\* sound, or failing at SessionLocal(), at session.add, or at db.commit().
AuditFaults == {"none", "open", "add", "commit"}

\* audit_middleware.py:31-117 AuditMiddleware.dispatch around the endpoint's reply:
\* the endpoint's session is closed (uncommitted rows are dropped), then the
\* middleware adds its own row in a session of its own and commits it.  The
\* result is the committed ledger and the response that leaves the middleware.
\* A health check is not logged (:52, :69).  An exception of add or commit is
\* caught and logged (:105-106).  When SessionLocal() raises (:72), "db" is
\* unbound in "finally: db.close()" (:108); that error leaves the inner try, is
\* re-raised by the outer handler (:112-117) and reaches the client as 500
\* (main.py:77-84).
AuditDispatch(method, path, reply, request_id, fault) ==
    LET row == [AuditLog(RequestStateUserId(Null), MethodAction(method), Null, Null,
                         ClientHost, UserAgent, request_id)
                   EXCEPT !.status_code = reply.status]
    IN
    IF path = "/health" THEN
        [led |-> reply.tx.led, status |-> reply.status, detail |-> reply.detail]
    ELSE IF fault = "open" THEN
        [led |-> reply.tx.led, status |-> 500, detail |-> "Internal server error"]
    ELSE IF fault \in {"add", "commit"} THEN
        [led |-> reply.tx.led, status |-> reply.status, detail |-> reply.detail]
    ELSE
        [led |-> InsertRows(reply.tx.led, <<row>>),
         status |-> reply.status, detail |-> reply.detail]

\* The subject account and the target resource as they were before the exchange.
Before(account, pid, cid) ==
    [locked |-> IF account \in Emails THEN users[account].is_locked ELSE FALSE,
     active |-> IF account \in Emails THEN users[account].is_active ELSE FALSE,
     registered |-> IF account \in Emails THEN users[account].registered ELSE FALSE,
     role |-> IF account \in Emails THEN users[account].role ELSE Null,
     failed |-> IF account \in Emails THEN users[account].failed_login_attempts ELSE 0,
     user |-> IF account \in Emails THEN users[account] ELSE users["jane"],
     password_changed_at |-> IF account \in Emails
                             THEN users[account].password_changed_at ELSE NoTime,
     activity |-> IF account \in Emails THEN activity[account] ELSE NoTime,
     streak |-> IF account \in Emails THEN streak[account] ELSE 0,
     patient |-> IF pid \in PatientIds THEN patients[pid] ELSE patients["p1"],
     contact |-> IF cid \in ContactIds THEN contacts[cid] ELSE contacts["c1"]]

\* The record of the last exchange: the operation, the account the credentials
\* name, the resource addressed, whether the password supplied was the
\* account's, whether the route handler ran and the status it produced, the
\* response the client received, the condition of the audit store, and the
\* length of the ledger before it.
Exchange(op, method, account, pid, cid, pwok, handled, handler_status, status, detail, rows, commits) ==
    [op |-> op, method |-> method, at |-> now, commits |-> commits,
     account |-> account, pid |-> pid, cid |-> cid, pwok |-> pwok,
     handled |-> handled, handler_status |-> handler_status,
     status |-> status, detail |-> detail, rows |-> rows, fault |-> audit_fault,
     request_id |-> RequestId(nreq + 1),
     base |-> Len(ledger), pre |-> Before(account, pid, cid)]

\* One HTTP request through the stack of main.py:51-52, 88-95: HIPAAMiddleware
\* (added last, so outermost of the two), AuditMiddleware, then the route.
\* hipaa_middleware.py:29-57: a public path goes straight on; an expired session
\* is answered 401 there, before AuditMiddleware and the route; otherwise the
\* session's last_activity is set when request.state has a user_id.
Serve(op, method, account, pid, cid, pwok, reply) ==
    LET path == Path(op)
        user_id == RequestStateUserId(account)
    IN
    IF ~is_public_endpoint(path) /\ is_session_expired(user_id) THEN
        /\ last' = Exchange(op, method, account, pid, cid, pwok, FALSE, NoStatus,
                            401, "Session expired due to inactivity", {}, <<>>)
        /\ nreq' = nreq + 1
        /\ UNCHANGED <<users, patients, contacts, ledger, now, budget, inflight,
                       activity, audit_fault>>
    ELSE
        LET out == AuditDispatch(method, path, reply, RequestId(nreq + 1), audit_fault)
        IN
        /\ activity' = IF ~is_public_endpoint(path) /\ user_id # Null
                       THEN [activity EXCEPT ![user_id] = now]
                       ELSE activity
        /\ users' = reply.tx.cu
        /\ patients' = reply.tx.cp
        /\ contacts' = reply.tx.cc
        /\ ledger' = out.led
        /\ nreq' = nreq + 1
        /\ last' = Exchange(op, method, account, pid, cid, pwok, TRUE, reply.status,
                            out.status, out.detail, reply.rows, reply.tx.ev)
        /\ UNCHANGED <<now, budget, inflight, audit_fault>>

\* --------------------------------------------------------------- actions
Budget == nreq < budget

PasswordOk(email, password) ==
    users[email].registered /\ verify_password(password, users[email].hashed_password)

\* The streak of an account: its consecutive password mismatches since its last
\* successful password authentication or password reset.
StreakAfter(email, password, succeeded) ==
    IF ~users[email].registered THEN streak
    ELSE IF succeeded THEN [streak EXCEPT ![email] = 0]
    ELSE IF ~PasswordOk(email, password) THEN [streak EXCEPT ![email] = @ + 1]
    ELSE streak

Login(email, password) ==
    /\ Budget
    /\ LET reply == login(email, password) IN
       /\ Serve("login", "POST", email, Null, Null, PasswordOk(email, password), reply)
       /\ streak' = StreakAfter(email, password, reply.status = 200)

LoginAccessToken(email, password) ==
    /\ Budget
    /\ LET reply == login_access_token(Begin, email, password) IN
       /\ Serve("login_access_token", "POST", email, Null, Null,
                PasswordOk(email, password), reply)
       /\ streak' = StreakAfter(email, password, reply.status = 200)

Register(email, password, role) ==
    /\ Budget
    /\ Serve("register", "POST", email, Null, Null, FALSE, register(email, password, role))
    /\ UNCHANGED streak

ResetPassword(email) ==
    /\ Budget
    /\ Serve("reset_password", "POST", email, Null, Null, FALSE, reset_password(email))
    /\ UNCHANGED streak

ChangePassword(token, current_password, new_password) ==
    /\ Budget
    /\ LET reply == change_password(token, current_password, new_password) IN
       /\ Serve("change_password", "POST", token.sub, Null, Null,
                PasswordOk(token.sub, current_password), reply)
       /\ streak' = IF reply.status = 401 THEN streak
                    ELSE StreakAfter(token.sub, current_password, reply.status = 200)

RefreshToken(token) ==
    /\ Budget
    /\ Serve("refresh_token", "POST", token.sub, Null, Null, FALSE, refresh_token(token))
    /\ UNCHANGED streak

RequestPasswordReset(email) ==
    /\ Budget
    /\ Serve("request_password_reset", "POST", email, Null, Null, FALSE,
             request_password_reset(email))
    /\ UNCHANGED streak

ConfirmPasswordReset(rtoken, new_password) ==
    /\ Budget
    /\ LET reply == confirm_password_reset(rtoken, new_password) IN
       /\ Serve("confirm_password_reset", "POST", rtoken.email, Null, Null, FALSE, reply)
       /\ streak' = IF reply.status = 200 THEN [streak EXCEPT ![rtoken.email] = 0]
                    ELSE streak

GuardedEndpoint(token, guard) ==
    /\ Budget
    /\ Serve("guarded:" \o guard, "GET", token.sub, Null, Null, FALSE,
             guarded_endpoint(token, guard))
    /\ UNCHANGED streak

CreatePatient(token) ==
    /\ Budget
    /\ FreeIds(patients, PatientIds) # {}
    /\ LET pid == NewId(patients, PatientIds) IN
         Serve("create_patient", "POST", token.sub, pid, Null, FALSE,
               create_patient(token, pid, "d1"))
    /\ UNCHANGED streak

ListPatients(token) ==
    /\ Budget
    /\ Serve("list_patients", "GET", token.sub, Null, Null, FALSE, list_patients(token))
    /\ UNCHANGED streak

GetPatient(token, pid) ==
    /\ Budget
    /\ Serve("get_patient", "GET", token.sub, pid, Null, FALSE, get_patient(token, pid))
    /\ UNCHANGED streak

UpdatePatient(token, pid) ==
    /\ Budget
    /\ Serve("update_patient", "PUT", token.sub, pid, Null, FALSE,
             update_patient(token, pid, "d1"))
    /\ UNCHANGED streak

DeletePatient(token, pid) ==
    /\ Budget
    /\ Serve("delete_patient", "DELETE", token.sub, pid, Null, FALSE,
             delete_patient(token, pid))
    /\ UNCHANGED streak

CreatePatientContact(token, pid) ==
    /\ Budget
    /\ FreeIds(contacts, ContactIds) # {}
    /\ LET cid == NewId(contacts, ContactIds) IN
         Serve("create_patient_contact", "POST", token.sub, pid, cid, FALSE,
               create_patient_contact(token, pid, cid, "d1"))
    /\ UNCHANGED streak

ListPatientContacts(token, pid) ==
    /\ Budget
    /\ Serve("list_patient_contacts", "GET", token.sub, pid, Null, FALSE,
             list_patient_contacts(token, pid))
    /\ UNCHANGED streak

GetPatientContact(token, pid, cid) ==
    /\ Budget
    /\ Serve("get_patient_contact", "GET", token.sub, pid, cid, FALSE,
             get_patient_contact(token, pid, cid))
    /\ UNCHANGED streak

UpdatePatientContact(token, pid, cid) ==
    /\ Budget
    /\ Serve("update_patient_contact", "PUT", token.sub, pid, cid, FALSE,
             update_patient_contact(token, pid, cid, "d1"))
    /\ UNCHANGED streak

DeletePatientContact(token, pid, cid) ==
    /\ Budget
    /\ Serve("delete_patient_contact", "DELETE", token.sub, pid, cid, FALSE,
             delete_patient_contact(token, pid, cid))
    /\ UNCHANGED streak

\* main.py:98-106 health_check
health_check == Reply(Begin, 200, "healthy", {})

HealthCheck ==
    /\ Budget
    /\ Serve("health", "GET", Null, Null, Null, FALSE, health_check)
    /\ UNCHANGED streak

\* The audit store fails, fails differently, or recovers.
AuditStoreTurns(fault) ==
    /\ fault # audit_fault
    /\ audit_fault' = fault
    /\ UNCHANGED <<users, patients, contacts, ledger, now, nreq, budget, streak, last,
                   inflight, activity>>

\* Time passes: by one clock unit, or by the password expiry period.
TickSteps == {1, HIPAA_PASSWORD_EXPIRY_DAYS * UnitsPerDay}

Tick(d) ==
    /\ Budget
    /\ now' = now + d
    /\ nreq' = nreq + 1
    /\ UNCHANGED <<users, patients, contacts, ledger, budget, streak, last, inflight,
                   activity, audit_fault>>

\* ------------------------------------------------------ concurrent logins
\* A login_access_token request in flight.  Its awaits are the points where
\* another request may run: after "await db.execute(select ...)" (router.py:41)
\* the session holds the user row as loaded; "await db.commit()" (router.py:63,
\* :109) writes the session's changes.
Idle == [pc |-> "idle"]

ConcLoad(i, email, password) ==
    /\ inflight[i].pc = "idle"
    /\ inflight' = [inflight EXCEPT ![i] =
                       [pc |-> "loaded", email |-> email, password |-> password,
                        tx |-> Begin]]
    /\ UNCHANGED <<users, patients, contacts, ledger, now, nreq, budget, streak, last,
                   activity, audit_fault>>

ConcFinish(i) ==
    /\ inflight[i].pc = "loaded"
    /\ LET r == inflight[i]
           reply == login_access_token(Resume(r.tx), r.email, r.password)
       IN
       /\ users' = reply.tx.cu
       /\ ledger' = AuditDispatch("POST", Path("login_access_token"), reply,
                                  RequestId(nreq + 1), audit_fault).led
       /\ nreq' = nreq + 1
       /\ last' = Exchange("login_access_token", "POST", r.email, Null, Null,
                           verify_password(r.password, r.tx.u[r.email].hashed_password),
                           TRUE, reply.status, reply.status, reply.detail, reply.rows,
                           reply.tx.ev)
       /\ streak' = IF reply.status = 200 THEN [streak EXCEPT ![r.email] = 0]
                    ELSE IF ~verify_password(r.password, r.tx.u[r.email].hashed_password)
                         THEN [streak EXCEPT ![r.email] = @ + 1]
                    ELSE streak
       /\ inflight' = [inflight EXCEPT ![i] =
                          [pc |-> "done", email |-> r.email, password |-> r.password,
                           status |-> reply.status]]
    /\ UNCHANGED <<patients, contacts, now, budget, activity, audit_fault>>

\* ------------------------------------------------------------------ init
NoUser ==
    [registered |-> FALSE, role |-> Null, is_active |-> FALSE, is_verified |-> FALSE,
     is_locked |-> FALSE, failed_login_attempts |-> 0, hashed_password |-> Null,
     password_changed_at |-> NoTime, last_login_at |-> NoTime]

NoPatient ==
    [exists |-> FALSE, is_deleted |-> FALSE, user_id |-> Null, assigned |-> {},
     data |-> "d0", created_by_id |-> Null, updated_by_id |-> Null]

NoContact ==
    [exists |-> FALSE, is_deleted |-> FALSE, patient_id |-> Null,
     data |-> "d0", created_by_id |-> Null, updated_by_id |-> Null]

\* The store with one account on file ("jane", of the given role, with the
\* given count of failed logins below the lock threshold), two patients and
\* one contact.
Store(role, active, failed) ==
    /\ users = [e \in Emails |->
                  IF e = "jane"
                  THEN [NewUser("pw1", role) EXCEPT !.is_active = active,
                                                    !.failed_login_attempts = failed,
                                                    !.password_changed_at = 0]
                  ELSE NoUser]
    /\ patients = [p \in PatientIds |->
                     CASE p = "p1" -> [NoPatient EXCEPT !.exists = TRUE,
                                                        !.user_id = "jane",
                                                        !.assigned = {"jane"}]
                       [] p = "p2" -> [NoPatient EXCEPT !.exists = TRUE]
                       [] OTHER -> NoPatient]
    /\ contacts = [c \in ContactIds |->
                     IF c = "c1"
                     THEN [NoContact EXCEPT !.exists = TRUE, !.patient_id = "p1"]
                     ELSE NoContact]
    /\ ledger = <<>>
    /\ nreq = 0
    /\ activity = [e \in Emails |-> NoTime]
    /\ audit_fault = "none"
    /\ last = [op |-> "none", method |-> Null, at |-> 0, commits |-> <<>>,
               account |-> Null, pid |-> Null, cid |-> Null,
               pwok |-> FALSE, handled |-> FALSE, handler_status |-> NoStatus,
               status |-> NoStatus, detail |-> Null, rows |-> {}, fault |-> "none",
               request_id |-> Null, base |-> 0, pre |-> Before(Null, Null, Null)]
    /\ inflight = [i \in 1..MaxConcurrent |-> Idle]

Init ==
    /\ \E role \in UserRole, active \in BOOLEAN : Store(role, active, 0)
    /\ now = 0
    /\ streak = [e \in Emails |-> 0]
    /\ budget = MaxSteps

\* The patients and contacts requests address: the rows of the initial store.
KnownPatients == {"p1", "p2"}
KnownContacts == {"c1"}
Actors == {AccessToken(e) : e \in Emails}

Next ==
    \/ \E e \in Emails, pw \in Passwords : Login(e, pw)
    \/ \E e \in Emails, pw \in Passwords : LoginAccessToken(e, pw)
    \/ \E e \in Emails, role \in UserRole : Register(e, "pw1", role)
    \/ \E e \in Emails : ResetPassword(e)
    \/ \E pw \in Passwords : ChangePassword(AccessToken("jane"), pw, "pw2")
    \/ \E t \in RefreshTokens : RefreshToken(t)
    \/ \E e \in Emails : RequestPasswordReset(e)
    \/ \E rt \in ResetTokens : ConfirmPasswordReset(rt, "pw2")
    \/ \E t \in BearerTokens, g \in Guards : GuardedEndpoint(t, g)
    \/ \E d \in TickSteps : Tick(d)
    \/ \E t \in Actors : CreatePatient(t)
    \/ \E t \in Actors : ListPatients(t)
    \/ \E t \in Actors, p \in KnownPatients : GetPatient(t, p)
    \/ \E t \in Actors, p \in KnownPatients : UpdatePatient(t, p)
    \/ \E t \in Actors, p \in KnownPatients : DeletePatient(t, p)
    \/ \E t \in Actors, p \in KnownPatients : CreatePatientContact(t, p)
    \/ \E t \in Actors, p \in KnownPatients : ListPatientContacts(t, p)
    \/ \E t \in Actors, p \in KnownPatients, c \in KnownContacts : GetPatientContact(t, p, c)
    \/ \E t \in Actors, p \in KnownPatients, c \in KnownContacts : UpdatePatientContact(t, p, c)
    \/ \E t \in Actors, p \in KnownPatients, c \in KnownContacts : DeletePatientContact(t, p, c)

Spec == Init /\ [][Next]_vars

\* ------------------------------------------- the authentication specification
\* One account and the requests that authenticate it, long enough for the lock
\* threshold to be passed.
InitAuth ==
    /\ \E active \in BOOLEAN : Store(STAFF, active, 0)
    /\ now = 0
    /\ streak = [e \in Emails |-> 0]
    /\ budget = MaxAttempts

NextAuth ==
    \/ \E pw \in Passwords : Login("jane", pw)
    \/ \E pw \in Passwords : LoginAccessToken("jane", pw)
    \/ \E pw \in Passwords : ChangePassword(AccessToken("jane"), pw, "pw2")
    \/ GuardedEndpoint(AccessToken("jane"), "active")
    \/ RefreshToken(RefreshTokenOf("jane"))

SpecAuth == InitAuth /\ [][NextAuth]_vars

\* --------------------------------------------- the concurrent specification
\* MaxConcurrent login_access_token requests for one account, interleaved at
\* their awaits.  The account starts with any number of failures below the
\* threshold already counted.
InitConc ==
    /\ \E f \in 0..(MAX_FAILED_LOGIN_ATTEMPTS - 1) :
         /\ Store(STAFF, TRUE, f)
         /\ streak = [e \in Emails |-> IF e = "jane" THEN f ELSE 0]
    /\ now = 0
    /\ budget = MaxConcurrent

NextConc ==
    \/ \E i \in 1..MaxConcurrent, pw \in Passwords : ConcLoad(i, "jane", pw)
    \/ \E i \in 1..MaxConcurrent : ConcFinish(i)

SpecConc == InitConc /\ [][NextConc]_vars

\* ------------------------------------------------ the audit-store specification
\* Requests served while the audit store may fail under the middleware, and
\* health checks.
InitAudit ==
    /\ \E role \in {ADMIN, CAREGIVER} : Store(role, TRUE, 0)
    /\ now = 0
    /\ streak = [e \in Emails |-> 0]
    /\ budget = MaxAudited

NextAudit ==
    \/ HealthCheck
    \/ \E pw \in Passwords : Login("jane", pw)
    \/ Register("bob", "pw1", CLIENT)
    \/ \E p \in KnownPatients : DeletePatient(AccessToken("jane"), p)
    \/ GuardedEndpoint(AccessToken("jane"), "admin")
    \/ \E f \in AuditFaults : AuditStoreTurns(f)

SpecAudit == InitAudit /\ [][NextAudit]_vars

\* ------------------------------------------------ the password-age specification
\* Password logins and password changes of an active, unlocked account whose
\* password was set at time 0, at clock times around the maximum password age.
AgesAtStart ==
    {HIPAA_PASSWORD_EXPIRY_DAYS * UnitsPerDay - 1,
     HIPAA_PASSWORD_EXPIRY_DAYS * UnitsPerDay,
     HIPAA_PASSWORD_EXPIRY_DAYS * UnitsPerDay + 1,
     (HIPAA_PASSWORD_EXPIRY_DAYS + 1) * UnitsPerDay - 1,
     (HIPAA_PASSWORD_EXPIRY_DAYS + 1) * UnitsPerDay}

InitAged ==
    /\ Store(STAFF, TRUE, 0)
    /\ now \in AgesAtStart
    /\ streak = [e \in Emails |-> 0]
    /\ budget = MaxAged

NextAged ==
    \/ \E pw \in Passwords : Login("jane", pw)
    \/ \E pw \in Passwords : LoginAccessToken("jane", pw)
    \/ \E pw \in Passwords : ChangePassword(AccessToken("jane"), pw, "pw2")
    \/ Tick(1)

SpecAged == InitAged /\ [][NextAged]_vars

\* ------------------------------------------------ the removal specification
\* Delete requests for every patient id, on file or not, by the accounts of
\* every role.
MaxRemovals == 3

InitRemoval ==
    /\ \E role \in UserRole : Store(role, TRUE, 0)
    /\ now = 0
    /\ streak = [e \in Emails |-> 0]
    /\ budget = MaxRemovals

NextRemoval ==
    \/ \E t \in Actors, p \in PatientIds : DeletePatient(t, p)
    \/ \E role \in UserRole : Register("bob", "pw1", role)

SpecRemoval == InitRemoval /\ [][NextRemoval]_vars

\* --------------------------------------------------- the lock specification
\* An account one mismatch short of the lock threshold, and the requests that
\* authenticate it, register accounts and confirm password resets.
MaxLockSteps == 3

InitLock ==
    /\ Store(STAFF, TRUE, LOCK_AFTER - 1)
    /\ now = 0
    /\ streak = [e \in Emails |-> IF e = "jane" THEN LOCK_AFTER - 1 ELSE 0]
    /\ budget = MaxLockSteps

NextLock ==
    \/ \E pw \in Passwords : Login("jane", pw)
    \/ \E pw \in Passwords : LoginAccessToken("jane", pw)
    \/ \E pw \in Passwords : ChangePassword(AccessToken("jane"), pw, "pw2")
    \/ \E e \in Emails, role \in {ADMIN, CLIENT} : Register(e, "pw1", role)
    \/ \E rt \in ResetTokens : ConfirmPasswordReset(rt, "pw2")

SpecLock == InitLock /\ [][NextLock]_vars

\* ------------------------------------------- the public-routes specification
\* The requests that need no credentials: registrations with every role and
\* password-reset requests, for an e-mail on file and one that is not.
MaxPublic == 3

InitPublic ==
    /\ \E role \in UserRole : Store(role, TRUE, 0)
    /\ now = 0
    /\ streak = [e \in Emails |-> 0]
    /\ budget = MaxPublic

NextPublic ==
    \/ \E e \in Emails, role \in UserRole : Register(e, "pw1", role)
    \/ \E e \in Emails : ResetPassword(e)
    \/ \E e \in Emails : RequestPasswordReset(e)

SpecPublic == InitPublic /\ [][NextPublic]_vars

\* ------------------------------------------------------------------ claims
\* The rows the last exchange added to the durable ledger.
NewEntries == {i \in (last.base + 1)..Len(ledger) : TRUE}

PasswordLogins == {"login", "login_access_token"}

\* C1: after N = 5 consecutive password mismatches of an account (no successful
\* authentication in between) the account is locked, and the next password
\* attempt fails whatever password it carries.
C1_LockoutAfterN ==
    /\ \A e \in Emails : streak[e] >= LOCK_AFTER => users[e].is_locked
    /\ (last.op \in PasswordLogins /\ last.pre.streak >= LOCK_AFTER) => last.status = 401

\* The attempt after the fifth mismatch carried the right password of an active
\* account and was refused.
C1_Witness ==
    /\ last.op \in PasswordLogins
    /\ last.pre.streak = LOCK_AFTER
    /\ last.pwok
    /\ last.pre.active
    /\ last.status = 401
    /\ users[last.account].is_locked

\* C2: an account that is locked or inactive authenticates by no path: bearer
\* token, token refresh and password login all fail for it.
AuthenticationOps == PasswordLogins \cup {"refresh_token", "guarded:active"}

C2_LockedOrInactiveNeverAuthenticates ==
    (/\ last.op \in AuthenticationOps
     /\ last.pre.registered
     /\ (last.pre.locked \/ ~last.pre.active))
        => last.status # 200

\* C3: when the concurrent password-mismatch attempts have all completed, the
\* failed-login counter counts every one of them, and the account is locked if
\* the count has reached the threshold.
AllMismatchesDone ==
    \A i \in 1..MaxConcurrent :
        /\ inflight[i].pc = "done"
        /\ ~verify_password(inflight[i].password, users[inflight[i].email].hashed_password)

C3_NoLostUpdate ==
    AllMismatchesDone =>
        /\ users["jane"].failed_login_attempts = streak["jane"]
        /\ (streak["jane"] >= MAX_FAILED_LOGIN_ATTEMPTS => users["jane"].is_locked)

\* C4: every refusal by a role check leaves exactly one AccessDenied row, naming
\* the actor, in the ledger.
C4_DenialAudited ==
    last.status = 403 =>
        Cardinality({i \in NewEntries : /\ ledger[i].action = "access_denied"
                                        /\ ledger[i].user_id = last.account}) = 1

\* C5: a successful mutating operation leaves exactly one row for it in the
\* durable ledger, of the matching action kind and naming its resource.
MutationKind(op) ==
    CASE op = "register" -> [action |-> "create", type |-> "User", id |-> last.account]
      [] op = "change_password" ->
            [action |-> "password_changed", type |-> "User", id |-> last.account]
      [] op = "create_patient" -> [action |-> "create", type |-> "Patient", id |-> last.pid]
      [] op = "update_patient" -> [action |-> "update", type |-> "Patient", id |-> last.pid]
      [] op = "delete_patient" -> [action |-> "delete", type |-> "Patient", id |-> last.pid]
      [] op = "create_patient_contact" ->
            [action |-> "create", type |-> "PatientContact", id |-> last.cid]
      [] op = "update_patient_contact" ->
            [action |-> "update", type |-> "PatientContact", id |-> last.cid]
      [] op = "delete_patient_contact" ->
            [action |-> "delete", type |-> "PatientContact", id |-> last.cid]

MutatingOps ==
    {"register", "change_password", "create_patient", "update_patient", "delete_patient",
     "create_patient_contact", "update_patient_contact", "delete_patient_contact"}

C5_MutationAuditedOnce ==
    (last.op \in MutatingOps /\ last.status \in {200, 201, 204}) =>
        LET k == MutationKind(last.op) IN
        Cardinality({i \in NewEntries : /\ ledger[i].action = k.action
                                        /\ ledger[i].resource_type = k.type
                                        /\ ledger[i].resource_id = k.id}) = 1

\* C6: a password authentication attempt on an account, whatever its outcome,
\* leaves exactly one login row (Login, LoginFailed or AccessDenied) in the ledger.
LoginKinds == {"login", "login_failed", "access_denied"}

C6_OneEntryPerAttempt ==
    (last.op \in PasswordLogins /\ last.pre.registered) =>
        Cardinality({i \in NewEntries : ledger[i].action \in LoginKinds}) = 1

\* C7: the patient list holds only rows its caller may read: every row for the
\* administrator and office staff, the assigned patients for a caregiver, the
\* own record for a client or family member.
MayRead(actor, pid) ==
    LET role == users[actor].role IN
    \/ role \in {ADMIN, STAFF}
    \/ role = CAREGIVER /\ actor \in patients[pid].assigned
    \/ role \in {CLIENT, FAMILY} /\ patients[pid].user_id = actor

C7_ListShowsOnlyReadableRows ==
    (last.op = "list_patients" /\ last.status = 200) =>
        \A pid \in last.rows : MayRead(last.account, pid)

\* C8: the handlers' decision on create, read-all, update and delete of a Patient
\* is the capability table's, for every role and action the table fixes.
TableFixes(role, op) ==
    \/ role \in {ADMIN, STAFF}
    \/ op \in {"create_patient", "list_patients", "delete_patient"}

TableAllows(role, op) ==
    \/ role = ADMIN
    \/ role = STAFF /\ op \in {"create_patient", "list_patients", "update_patient"}

C8_DecisionsFollowTable ==
    (/\ last.op \in {"create_patient", "list_patients", "update_patient", "delete_patient"}
     /\ last.status # 401
     /\ TableFixes(last.pre.role, last.op))
        => ((last.status # 403) <=> TableAllows(last.pre.role, last.op))

\* C9: a delete of a patient or a patient contact takes effect only for an
\* administrator; any other authenticated actor is refused with 403, and no
\* request by a non-administrator changes the soft-delete flag of its target.
DeleteOps == {"delete_patient", "delete_patient_contact"}

TargetFlagUnchanged ==
    /\ patients[last.pid].is_deleted = last.pre.patient.is_deleted
    /\ last.op = "delete_patient_contact" =>
           contacts[last.cid].is_deleted = last.pre.contact.is_deleted

C10_LedgerAppendOnly ==
    [][/\ Len(ledger') >= Len(ledger)
       /\ SubSeq(ledger', 1, Len(ledger)) = ledger]_vars

\* A request was served on a ledger that already held rows, and added its own.
C10_Witness ==
    /\ last.base >= 1
    /\ Len(ledger) > last.base

\* C11: a successful password authentication leaves the account's failed-login
\* counter at 0, so the counter holds only the mismatches since the last
\* success, and an account is locked only by a full run of them.
C11_SuccessResetsCounter ==
    /\ (last.op \in PasswordLogins /\ last.status = 200) =>
           users[last.account].failed_login_attempts = 0
    /\ \A e \in Emails :
           users[e].registered =>
               /\ users[e].failed_login_attempts = streak[e]
               /\ users[e].is_locked => streak[e] >= LOCK_AFTER

\* A login succeeded on an account that had mismatches counted, short of the
\* threshold.
C11_Witness ==
    /\ last.op \in PasswordLogins
    /\ last.status = 200
    /\ last.pre.failed >= 2
    /\ last.pre.failed < LOCK_AFTER
    /\ users[last.account].failed_login_attempts = 0

\* C12: a password mismatch on an account on file raises its failed-login
\* counter by exactly 1 and locks the account, in the same commit, when the
\* counter reaches the threshold; no stored account has a counter at or past
\* the threshold and is unlocked.
C12_MismatchCountsOnceAndLocks ==
    /\ (last.op \in PasswordLogins /\ last.pre.registered /\ ~last.pwok) =>
           /\ users[last.account].failed_login_attempts = last.pre.failed + 1
           /\ users[last.account].is_locked =
                  (last.pre.locked \/ last.pre.failed + 1 >= LOCK_AFTER)
    /\ \A e \in Emails :
           users[e].failed_login_attempts >= LOCK_AFTER => users[e].is_locked

\* The mismatch that took the counter from 4 to 5 locked the account.
C12_Witness ==
    /\ last.op \in PasswordLogins
    /\ ~last.pwok
    /\ last.pre.failed = LOCK_AFTER - 1
    /\ ~last.pre.locked
    /\ users[last.account].failed_login_attempts = LOCK_AFTER
    /\ users[last.account].is_locked

\* C13: a soft-deleted patient or contact is in the result of no default read
\* or list (get by id, list patients, list contacts); only a select that asks
\* for deleted rows sees it.
PatientReads == {"list_patients", "get_patient"}
ContactReads == {"list_patient_contacts", "get_patient_contact"}

DeleteEntriesFor(resource_type, resource_id) ==
    {i \in NewEntries : /\ ledger[i].action = "delete"
                        /\ ledger[i].user_id = last.account
                        /\ ledger[i].resource_type = resource_type
                        /\ ledger[i].resource_id = resource_id}

AnonymousOps ==
    {"none", "health", "login", "login_access_token", "register", "reset_password",
     "refresh_token", "request_password_reset", "confirm_password_reset"}

Authenticated ==
    last.op \notin AnonymousOps /\ last.handled /\ last.handler_status # 401

C15_IdleSessionsExpire ==
    /\ (/\ last.op \notin AnonymousOps
        /\ last.pre.registered /\ last.pre.active
        /\ last.pre.activity # NoTime
        /\ IdleTooLong(now - last.pre.activity))
           => (/\ last.status = 401
               /\ ~last.handled
               /\ activity[last.account] = last.pre.activity)
    /\ Authenticated => activity[last.account] = now

\* C16: every request that is answered leaves a ledger row that records its
\* outcome.
C16_EveryResponseAudited ==
    last.op # "none" =>
        \E i \in NewEntries : ledger[i].status_code = last.status

\* C17: a password login with the right password, by an active and unlocked
\* account whose password was last changed at a known time, succeeds exactly
\* when that time is not earlier than now minus the maximum password age.
PasswordTooOld(changed_at) ==
    changed_at < now - HIPAA_PASSWORD_EXPIRY_DAYS * UnitsPerDay

C17_PasswordExpiry ==
    (/\ last.op \in PasswordLogins
     /\ last.pwok
     /\ last.pre.registered /\ last.pre.active /\ ~last.pre.locked
     /\ last.pre.password_changed_at # NoTime)
        => ((last.status = 200) <=> ~PasswordTooOld(last.pre.password_changed_at))

\* C18: every ledger row written for a request of an authenticated actor names
\* that actor as its acting user.
C18_EntriesNameTheActor ==
    Authenticated =>
        \A i \in NewEntries : ledger[i].user_id = last.account

\* C19: every ledger row written while a request is handled carries the
\* request's client address, user agent and request id.
C19_EntriesCarryRequestContext ==
    last.op # "none" =>
        \A i \in NewEntries : /\ ledger[i].ip_address = ClientHost
                               /\ ledger[i].user_agent = UserAgent
                               /\ ledger[i].request_id = last.request_id

\* C20: when the write of a request's audit row fails, at opening the session,
\* adding the row or committing, the caller receives the response the handler
\* produced and what the handler committed stays in place.
C20_AuditFailureKeepsResponse ==
    (last.fault # "none" /\ last.handled /\ last.op # "health") =>
        /\ last.status = last.handler_status
        /\ (last.op = "register" /\ last.handler_status = 201) =>
               users[last.account].registered
        /\ (last.op = "delete_patient" /\ last.handler_status = 204) =>
               patients[last.pid].is_deleted

\* C21: the password-expiry check of authenticate_user comes after the password
\* check.  For two accounts that differ only in the time the password was last
\* changed, an attempt with a wrong password has the same result (refused) and
\* the same effect: the failed-login counter plus one, the same lock decision,
\* the same pending login_failed row, and the change time left as it was.
ChangedAtChoices == {NoTime, 0, now}

ChangedAt(tx, email, t) ==
    [tx EXCEPT !.u[email].password_changed_at = t,
               !.lu[email].password_changed_at = t,
               !.cu[email].password_changed_at = t]

C21_ExpiryCheckedAfterPassword ==
    /\ \A e \in Emails, pw \in Passwords, t \in ChangedAtChoices :
          (users[e].registered /\ ~verify_password(pw, users[e].hashed_password)) =>
              LET a == authenticate_user(Begin, e, pw)
                  b == authenticate_user(ChangedAt(Begin, e, t), e, pw)
              IN /\ a.user = Null /\ b.user = Null
                 /\ a.tx.cu[e].failed_login_attempts = users[e].failed_login_attempts + 1
                 /\ b.tx.cu = ChangedAt(a.tx, e, t).cu
                 /\ b.tx.pend = a.tx.pend
                 /\ b.tx.led = a.tx.led
    /\ (last.op = "login" /\ ~last.pwok /\ last.pre.registered) =>
          /\ last.status = 401
          /\ users[last.account] =
                 [last.pre.user EXCEPT
                     !.failed_login_attempts = @ + 1,
                     !.is_locked = @ \/ last.pre.failed + 1 >= LOCK_AFTER]

C21_Witness ==
    /\ last.op = "login" /\ ~last.pwok /\ last.pre.registered
    /\ last.pre.password_changed_at # NoTime
    /\ DaysBetween(last.pre.password_changed_at, last.at) > HIPAA_PASSWORD_EXPIRY_DAYS
    /\ last.status = 401
    /\ users[last.account].failed_login_attempts = last.pre.failed + 1

\* C22: for an actor whose role may not delete patients, the response to a
\* patient delete request is the same whether the addressed patient is on file,
\* soft-deleted or was never stored: 403 with the same detail, the role being
\* checked before the row is looked up; no patient row changes.
C22_RoleDecidedBeforeLookup ==
    /\ \A t \in Actors, p \in PatientIds, q \in PatientIds :
          (get_current_user(Begin, t) # Null /\ ~MayDeletePatient(users[t.sub].role)) =>
              LET a == delete_patient(t, p)
                  b == delete_patient(t, q)
              IN /\ a.status = 403 /\ b.status = a.status
                 /\ b.detail = a.detail
                 /\ a.tx.cp = patients /\ b.tx.cp = patients
    /\ (/\ last.op = "delete_patient" /\ last.handled /\ last.handler_status # 401
        /\ ~MayDeletePatient(last.pre.role)) =>
          /\ last.status = 403
          /\ last.detail = "Only administrators can delete patient records"
          /\ patients[last.pid] = last.pre.patient

C22_Witness ==
    /\ last.op = "delete_patient" /\ last.handled
    /\ ~MayDeletePatient(last.pre.role)
    /\ ~Visible(last.pre.patient, FALSE)
    /\ last.status = 403

\* C23: within a request, the audit row of a mutation becomes durable no earlier
\* than the mutation: no row change of the request is committed after the
\* commit that stores the audit row (the change is stored by the same commit or
\* an earlier one).  A row
\* for a denial is stored only by a request whose handler refused.  The row the
\* middleware writes for the request follows every row of the handler, and all
\* of them are in the ledger when the response is returned.
DescribedOps == MutatingOps \cup {"confirm_password_reset"}

DescribingKind(op) ==
    IF op = "confirm_password_reset" THEN "update" ELSE MutationKind(op).action

C23_EntryFollowsMutation ==
    (last.op # "none" /\ last.handled) =>
        /\ last.op \in DescribedOps =>
              \A i \in DOMAIN last.commits :
                  DescribingKind(last.op) \in last.commits[i].kinds =>
                      \A j \in (i + 1)..Len(last.commits) : ~last.commits[j].mut
        /\ (\E i \in DOMAIN last.commits : "access_denied" \in last.commits[i].kinds) =>
              last.handler_status \in {401, 403}
        /\ \A k \in NewEntries :
              ledger[k].request_id = last.request_id => k = Len(ledger)
        /\ Len(ledger) - last.base >=
              Cardinality({i \in DOMAIN last.commits : last.commits[i].kinds # {}})

C23_Witness ==
    /\ last.op = "create_patient" /\ last.status = 201
    /\ Len(last.commits) = 2
    /\ last.commits[1].mut /\ last.commits[1].kinds = {}
    /\ ~last.commits[2].mut /\ last.commits[2].kinds = {"create"}
    /\ ledger[Len(ledger)].request_id = last.request_id
    /\ ledger[Len(ledger) - 1].action = "create"
    /\ patients[last.pid].exists

\* C24: the row the audit middleware writes for a request has the action kind
\* its HTTP method maps to (GET Access, POST Create, PUT and PATCH Update, DELETE
\* Delete, any other method Access), and that kind is the kind of the operation
\* the request performed: create, read, update or delete.
Methods == {"GET", "POST", "PUT", "PATCH", "DELETE", "HEAD", "OPTIONS"}

MethodTable(method) ==
    CASE method = "GET" -> "access"
      [] method = "POST" -> "create"
      [] method \in {"PUT", "PATCH"} -> "update"
      [] method = "DELETE" -> "delete"
      [] OTHER -> "access"

Creates == {"register", "create_patient", "create_patient_contact"}
Reads == {"list_patients", "get_patient", "list_patient_contacts", "get_patient_contact"}
Updates == {"update_patient", "update_patient_contact", "change_password",
            "confirm_password_reset"}
Deletes == {"delete_patient", "delete_patient_contact"}

OperationKind(op) ==
    CASE op \in Creates -> "create"
      [] op \in Reads -> "access"
      [] op \in Updates -> "update"
      [] op \in Deletes -> "delete"

C24_MiddlewareKindMatchesOperation ==
    /\ \A method \in Methods : MethodAction(method) = MethodTable(method)
    /\ (/\ last.op \in Creates \cup Reads \cup Updates \cup Deletes
        /\ last.handled /\ last.status \in {200, 201, 204}) =>
          \A k \in NewEntries :
              ledger[k].request_id = last.request_id =>
                  /\ ledger[k].action = MethodTable(last.method)
                  /\ ledger[k].action = OperationKind(last.op)

\* C25: a reset-password request is answered with the same status and message
\* whether or not its e-mail belongs to a registered account, on both reset
\* routes; no stored account changes.
C25_ResetAnswerHidesRegistration ==
    /\ \A e1 \in Emails, e2 \in Emails :
          /\ reset_password(e1).status = reset_password(e2).status
          /\ reset_password(e1).detail = reset_password(e2).detail
          /\ request_password_reset(e1).status = request_password_reset(e2).status
          /\ request_password_reset(e1).detail = request_password_reset(e2).detail
          /\ reset_password(e1).tx.cu = users
          /\ request_password_reset(e1).tx.cu = users
    /\ last.op = "reset_password" =>
          /\ last.status = 202
          /\ last.detail = "If your email is registered, you will receive a password reset link"
    /\ last.op = "request_password_reset" =>
          /\ last.status = 200
          /\ last.detail = "If this email exists, a password reset link has been sent"

C25_Witness ==
    /\ last.op = "reset_password"
    /\ ~last.pre.registered /\ ~users[last.account].registered
    /\ \E e \in Emails : users[e].registered
    /\ last.status = 202

\* C26: a change-password request of an authenticated account with a wrong
\* current password is refused and counted as a failed login: the account's
\* failed-login counter goes up by 1, the account is locked when the counter
\* reaches 5, and its password and password-change time stay as they were.
C26_WrongCurrentPasswordCounts ==
    (/\ last.op = "change_password"
     /\ last.handled /\ last.handler_status # 401
     /\ ~last.pwok) =>
        /\ last.status = 400
        /\ users[last.account] =
               [last.pre.user EXCEPT
                   !.failed_login_attempts = @ + 1,
                   !.is_locked = @ \/ last.pre.failed + 1 >= LOCK_AFTER]
        /\ users[last.account].hashed_password = last.pre.user.hashed_password
        /\ users[last.account].password_changed_at = last.pre.password_changed_at

C26_Witness ==
    /\ last.op = "change_password" /\ last.handled /\ ~last.pwok
    /\ last.status = 400
    /\ last.pre.failed = LOCK_AFTER - 1 /\ ~last.pre.locked
    /\ users[last.account].failed_login_attempts = LOCK_AFTER
    /\ users[last.account].is_locked

\* C27: once the age of an account's password exceeds the maximum password age
\* (more than 90 whole days), it stays so: no login and no change-password
\* request of the account succeeds from then on, change-password refuses the
\* correct current password, and the password-change time is never written.
PastExpiry(user) ==
    /\ user.registered
    /\ user.password_changed_at # NoTime
    /\ DaysBetween(user.password_changed_at, now) > HIPAA_PASSWORD_EXPIRY_DAYS

C28_SessionWithoutActivityRejected ==
    (/\ last.op \notin AnonymousOps
     /\ last.pre.registered /\ last.pre.active
     /\ last.pre.activity = NoTime) =>
        /\ last.status = 401
        /\ last.detail = "Session expired due to inactivity"
        /\ ~last.handled
        /\ activity[last.account] = NoTime

\* C29: the locked flag of an account, once true, stays true through logins,
\* password changes and registrations; the only step that clears it is a
\* password-reset confirmation with a valid token for that account, and that
\* step sets the failed-login counter to 0 with it.
C29_LockClearedOnlyByReset ==
    [][\A e \in Emails :
          (users[e].registered /\ users[e].is_locked /\ ~users'[e].is_locked) =>
              /\ last'.request_id # last.request_id
              /\ last'.op = "confirm_password_reset"
              /\ last'.account = e
              /\ last'.status = 200
              /\ users'[e].failed_login_attempts = 0]_vars

C29_Witness ==
    /\ last.op = "confirm_password_reset" /\ last.status = 200
    /\ last.pre.locked /\ last.pre.failed >= LOCK_AFTER
    /\ ~users[last.account].is_locked
    /\ users[last.account].failed_login_attempts = 0

\* C30: registration is a public operation, served without an authenticated
\* actor.  For an e-mail not on file it creates the account with exactly the
\* role of the request, whichever of the five roles that is, active and not
\* verified, and leaves every other account as it was; for an e-mail already
\* registered it is refused and no account is created or changed.
C30_RegisterCreatesRequestedRole ==
    /\ is_public_endpoint(Path("register"))
    /\ \A e \in Emails, role \in UserRole :
          LET reply == register(e, "pw1", role) IN
          IF users[e].registered
          THEN reply.status = 400 /\ reply.tx.cu = users
          ELSE /\ reply.status = 201
               /\ reply.tx.cu[e].registered
               /\ reply.tx.cu[e].role = role
               /\ reply.tx.cu[e].is_active
               /\ ~reply.tx.cu[e].is_verified
               /\ \A o \in Emails \ {e} : reply.tx.cu[o] = users[o]
    /\ (last.op = "register" /\ last.handled) =>
          IF last.pre.registered
          THEN last.status = 400 /\ users[last.account] = last.pre.user
          ELSE /\ last.status = 201
               /\ users[last.account].registered
               /\ users[last.account].role \in UserRole
               /\ users[last.account].is_active
               /\ ~users[last.account].is_verified

C30_Witness ==
    /\ last.op = "register" /\ last.handled /\ last.status = 201
    /\ ~last.pre.registered
    /\ users[last.account].registered
    /\ users[last.account].role = ADMIN
    /\ users[last.account].is_active /\ ~users[last.account].is_verified

====
